---------------------------- MODULE Spec2Model ----------------------------
(***************************************************************************)
(* Model of the scoring, deduplication, categorization and synthesis core  *)
(* of src/pipeline.py (keyword_relevance, deduplicate, categorize_items,   *)
(* generate_pulse, generate_outlook) as it is driven by main().            *)
(*                                                                         *)
(* Python str values are TLA+ strings; TLC evaluates Len, SubSeq and \o on *)
(* them, so substring tests, lower() and strip() are computed character by *)
(* character.  A dict is a record; an absent key is an absent field.       *)
(***************************************************************************)
EXTENDS Integers, Sequences, FiniteSets, TLC

(***************************************************************************)
(* Python str operations                                                   *)
(***************************************************************************)

\* str.lower() on one character (ASCII letters; anything else is unchanged)
LowerChar(c) ==
    CASE c = "A" -> "a" [] c = "B" -> "b" [] c = "C" -> "c" [] c = "D" -> "d"
      [] c = "E" -> "e" [] c = "F" -> "f" [] c = "G" -> "g" [] c = "H" -> "h"
      [] c = "I" -> "i" [] c = "J" -> "j" [] c = "K" -> "k" [] c = "L" -> "l"
      [] c = "M" -> "m" [] c = "N" -> "n" [] c = "O" -> "o" [] c = "P" -> "p"
      [] c = "Q" -> "q" [] c = "R" -> "r" [] c = "S" -> "s" [] c = "T" -> "t"
      [] c = "U" -> "u" [] c = "V" -> "v" [] c = "W" -> "w" [] c = "X" -> "x"
      [] c = "Y" -> "y" [] c = "Z" -> "z" [] OTHER -> c

RECURSIVE Lower(_)
\* str.lower()
Lower(s) ==
    IF Len(s) = 0 THEN ""
    ELSE LowerChar(SubSeq(s, 1, 1)) \o Lower(SubSeq(s, 2, Len(s)))

\* the characters str.strip() removes
IsSpace(c) == c \in {" ", "\t", "\n", "\r"}

RECURSIVE LStrip(_)
LStrip(s) ==
    IF Len(s) > 0 /\ IsSpace(SubSeq(s, 1, 1))
    THEN LStrip(SubSeq(s, 2, Len(s))) ELSE s

RECURSIVE RStrip(_)
RStrip(s) ==
    IF Len(s) > 0 /\ IsSpace(SubSeq(s, Len(s), Len(s)))
    THEN RStrip(SubSeq(s, 1, Len(s) - 1)) ELSE s

\* str.strip(): leading and trailing whitespace of the whole string only
Strip(s) == RStrip(LStrip(s))

\* Python's `kw in text` on strings
Contains(kw, text) ==
    \E i \in 1..(Len(text) - Len(kw) + 1) : SubSeq(text, i, i + Len(kw) - 1) = kw

RECURSIVE Join(_, _)
\* sep.join(parts)
Join(sep, parts) ==
    IF Len(parts) = 0 THEN ""
    ELSE IF Len(parts) = 1 THEN parts[1]
    ELSE parts[1] \o sep \o Join(sep, Tail(parts))

Digit == <<"0", "1", "2", "3", "4", "5", "6", "7", "8", "9">>

RECURSIVE NumStr(_)
\* how an f-string formats a non-negative int
NumStr(n) ==
    IF n < 10 THEN Digit[n + 1] ELSE NumStr(n \div 10) \o Digit[(n % 10) + 1]

\* seq[:n]
Take(seq, n) == SubSeq(seq, 1, IF n < Len(seq) THEN n ELSE Len(seq))

\* dict.get(key, default)
Get(d, key, default) == IF key \in DOMAIN d THEN d[key] ELSE default

(***************************************************************************)
(* Configuration                                                           *)
(***************************************************************************)

MAX_ITEMS_PER_SECTION == 10

\* iteration order of the SECTION_RULES dict (insertion order)
SectionOrder ==
    << "multilateral_finance", "major_economies", "canada_watch",
       "project_finance_delivery", "climate_sustainability", "tech_innovation" >>

SectionIds == { SectionOrder[i] : i \in 1..Len(SectionOrder) }

SECTION_RULES ==
    [ multilateral_finance |->
        [ source_hints |->
            << "world bank", "ifc", "asian development bank", "african development bank",
               "aiib", "european investment bank", "ebrd", "new development bank",
               "oecd", "g20", "global infrastructure hub", "un-habitat" >>,
          keywords |->
            << "world bank", "ifc ", "adb ", "aiib", "eib ", "ebrd", "ndb ",
               "oecd", "g20", "g7", "multilateral", "development bank",
               "development finance", "concessional", "sovereign guarantee",
               "global infrastructure hub", "un-habitat", "sdg", "mdb ",
               "international finance", "bilateral aid", "official development" >> ],
      major_economies |->
        [ source_hints |->
            << "us dot", "federal highway", "us epa", "army corps", "white house",
               "build america", "brookings", "eno center", "asce",
               "reason foundation", "national infrastructure commission",
               "infrastructure & projects authority", "european commission",
               "bruegel", "infrastructure intelligence", "new civil engineer",
               "france", "germany", "bmvi",
               "infrastructure australia", "infrastructure partnerships australia",
               "india", "gati shakti", "niti aayog", "belt and road",
               "japan", "south korea", "asean", "infrastructure asia" >>,
          keywords |->
            << "united states", "us dot", "fhwa", "iija", "bipartisan infrastructure",
               "buy america", "european union", "ten-t", "investeu", "european commission",
               "united kingdom", "uk infrastructure", "national infrastructure commission",
               "india infrastructure", "gati shakti", "national infrastructure pipeline",
               "china infrastructure", "belt and road", "bri ", "australia infrastructure",
               "infrastructure australia", "japan infrastructure", "mlit",
               "south korea", "germany infrastructure", "france infrastructure",
               "gulf states", "saudi arabia", "neom", "uae infrastructure" >> ],
      canada_watch |->
        [ source_hints |->
            << "infrastructure canada", "canada infrastructure bank",
               "infrastructure ontario", "parliamentary budget officer",
               "ontario financial accountability", "c.d. howe",
               "federation of canadian municipalities", "canadian council for p3",
               "renew canada", "daily commercial news",
               "global affairs canada", "canada gazette" >>,
          keywords |->
            << "canada", "canadian", "ontario", "quebec", "british columbia",
               "alberta", "infrastructure canada", "infrastructure ontario",
               "canada infrastructure bank", "cib ", "pbo ", "fao ",
               "fcm ", "municipal infrastructure", "provincial infrastructure",
               "ccppp", "p3 canada", "housing accelerator",
               "transit canada", "via rail", "metrolinx" >> ],
      project_finance_delivery |->
        [ source_hints |->
            << "world bank ppp", "global infrastructure investor",
               "ijglobal", "infrastructure investor", "preqin",
               "kpmg", "deloitte", "mckinsey" >>,
          keywords |->
            << "public-private partnership", "ppp ", "p3 ", "concession",
               "design-build", "design build", "dbfm", "dbfom", "dbo ",
               "alliance contract", "progressive design", "project finance",
               "infrastructure fund", "infrastructure investor",
               "asset recycling", "toll road", "toll revenue",
               "procurement model", "delivery model", "risk allocation",
               "financial close", "bid ", "tender", "rfp ", "rfq ",
               "availability payment", "revenue risk",
               "lifecycle cost", "value for money", "vfm " >> ],
      climate_sustainability |->
        [ source_hints |->
            << "climate bonds", "global commission on adaptation",
               "coalition for climate resilient", "unep",
               "green climate fund", "iea", "irena", "c40" >>,
          keywords |->
            << "climate", "green bond", "green infrastructure",
               "resilience", "adaptation", "net zero", "net-zero",
               "renewable energy infrastructure", "clean energy",
               "carbon capture", "ccs ", "ccus", "hydrogen",
               "sustainable infrastructure", "nature-based",
               "flood", "wildfire", "extreme weather",
               "climate bond", "green finance", "esg ",
               "just transition", "energy transition",
               "circular economy", "embodied carbon" >> ],
      tech_innovation |->
        [ source_hints |->
            << "smart cities world", "digital twin consortium",
               "buildingsmart", "world economic forum",
               "mit senseable", "iot analytics" >>,
          keywords |->
            << "digital twin", "bim ", "building information model",
               "smart city", "smart cities", "smart infrastructure",
               "iot ", "internet of things", "artificial intelligence",
               "ai infrastructure", "machine learning",
               "construction technology", "contech", "infratech",
               "govtech", "modular construction", "prefab",
               "3d printing construction", "robotics construction",
               "autonomous vehicle", "ev charging", "5g ",
               "fiber optic", "data center" >> ] ]


(***************************************************************************)
(* Relevance scorer: keyword_relevance                                     *)
(***************************************************************************)

\* text = f"{item['title']} {item.get('summary', '')}".lower()
ItemText(item) == Lower(item.title \o " " \o Get(item, "summary", ""))

\* [k.lower() for k in config.get("keywords", {}).get(name, [])]
ConfigKeywords(config, name) ==
    LET kws == Get(Get(config, "keywords", <<>>), name, <<>>)
    IN  [ i \in 1..Len(kws) |-> Lower(kws[i]) ]

RECURSIVE KeywordHits(_, _, _)
\* for kw in kws: if kw in text: score += weight
KeywordHits(kws, text, weight) ==
    IF Len(kws) = 0 THEN 0
    ELSE (IF Contains(Head(kws), text) THEN weight ELSE 0)
         + KeywordHits(Tail(kws), text, weight)

\* the tier boost
TierBoost(item) ==
    IF Get(item, "tier", "None") = 1 THEN 3
    ELSE IF Get(item, "tier", "None") = 2 THEN 1
    ELSE 0

\* the score keyword_relevance computes for one item
RelevanceScore(item, config) ==
    LET text == ItemText(item)
    IN  KeywordHits(ConfigKeywords(config, "primary"), text, 2)
        + KeywordHits(ConfigKeywords(config, "secondary"), text, 1)
        + TierBoost(item)

\* a scorer that drops the items scoring exactly 2
MeetsThresholdOffByOne(score) == score > 2

\* if score >= 2
MeetsThreshold(score) == score >= 2

\* item["relevance_score"] = score, on the item's own dict
Annotate(item, score) == ("relevance_score" :> score) @@ item

RECURSIVE keyword_relevance(_, _)
\* the list keyword_relevance returns
keyword_relevance(items, config) ==
    IF Len(items) = 0 THEN << >>
    ELSE LET item  == Head(items)
             score == RelevanceScore(item, config)
         IN  (IF MeetsThreshold(score) THEN << Annotate(item, score) >> ELSE << >>)
             \o keyword_relevance(Tail(items), config)

\* the caller's list after the call: the retained dicts were annotated in place
ItemsAfterScoring(items, config) ==
    [ i \in 1..Len(items) |->
        LET score == RelevanceScore(items[i], config)
        IN  IF MeetsThreshold(score) THEN Annotate(items[i], score) ELSE items[i] ]

(***************************************************************************)
(* Deduplicator: _item_hash, deduplicate                                   *)
(***************************************************************************)

\* hashlib.md5(raw.encode()).hexdigest(): equal digests for equal inputs, and
\* distinct digests for the distinct inputs of a run (no MD5 collision arises)
Md5Hex(raw) == << "md5", raw >>

\* raw = (title + url).lower().strip()
ItemHashRaw(item) == Strip(Lower(Get(item, "title", "") \o Get(item, "url", "")))

_item_hash(item) == Md5Hex(ItemHashRaw(item))

RECURSIVE DedupFrom(_, _)
\* the loop of deduplicate, with the set `seen` so far
DedupFrom(items, seen) ==
    IF Len(items) = 0 THEN << >>
    ELSE LET h == _item_hash(Head(items))
         IN  IF h \notin seen
             THEN << Head(items) >> \o DedupFrom(Tail(items), seen \cup {h})
             ELSE DedupFrom(Tail(items), seen)

deduplicate(items) == DedupFrom(items, {})

(***************************************************************************)
(* Categorizer: the pieces of one iteration of categorize_items            *)
(***************************************************************************)

\* key=lambda x: x.get("relevance_score", 0)
SortKey(item) == Get(item, "relevance_score", 0)

\* a sort that is not stable: an item goes before the items with an equal key
ComesBeforeStrict(item, x) == SortKey(item) > SortKey(x)

\* where a stable descending sort puts x among the already ordered items:
\* after every item whose key is not smaller
ComesBefore(item, x) == SortKey(item) >= SortKey(x)

RECURSIVE InsertDesc(_, _)
InsertDesc(sorted, x) ==
    IF Len(sorted) = 0 THEN << x >>
    ELSE IF ComesBefore(Head(sorted), x)
         THEN << Head(sorted) >> \o InsertDesc(Tail(sorted), x)
         ELSE << x >> \o sorted

RECURSIVE SortFrom(_, _)
SortFrom(sorted, rest) ==
    IF Len(rest) = 0 THEN sorted
    ELSE SortFrom(InsertDesc(sorted, Head(rest)), Tail(rest))

\* items.sort(key=..., reverse=True): stable, equal keys keep their order
SortByRelevance(items) == SortFrom(<< >>, items)

\* for hint in rules["source_hints"]: if hint in source_lower: score += 5; break
SourceHintScore(rules, source_lower) ==
    IF \E i \in 1..Len(rules.source_hints) : Contains(rules.source_hints[i], source_lower)
    THEN 5 ELSE 0

\* one section's score, from the item's lowercased text and source name
SectionScore(section_id, text, source_lower) ==
    LET rules == SECTION_RULES[section_id]
    IN  SourceHintScore(rules, source_lower) + KeywordHits(rules.keywords, text, 1)

\* a categorizer in which the last of the tied sections wins
BeatsOrTies(score, best_score) == score >= best_score

\* if score > best_score
Beats(score, best_score) == score > best_score

RECURSIVE BestFrom(_, _, _, _)
\* the loop over SECTION_RULES.items() from position i, with the best so far
BestFrom(i, text, source_lower, best) ==
    IF i > Len(SectionOrder) THEN best
    ELSE LET score == SectionScore(SectionOrder[i], text, source_lower)
         IN  BestFrom(i + 1, text, source_lower,
                      IF Beats(score, best.score)
                      THEN [section |-> SectionOrder[i], score |-> score]
                      ELSE best)

\* best_section, best_score after the loop (None, 0 when no section scores)
BestMatch(item) ==
    LET text         == ItemText(item)
        source_lower == Lower(Get(item, "source", ""))
    IN  BestFrom(1, text, source_lower, [section |-> "None", score |-> 0])

\* if best_section and best_score >= 2
Qualifies(best) == best.section # "None" /\ best.score >= 2

\* a categorizer that never looks at used_urls
UrlIsNewUnchecked(item, used) == TRUE

\* item["url"] not in used_urls
UrlIsNew(item, used) == item.url \notin used

\* a categorizer that lets one item too many in
HasRoomOffByOne(lst) == Len(lst) <= MAX_ITEMS_PER_SECTION

\* len(sections[best_section]) < MAX_ITEMS_PER_SECTION
HasRoom(lst) == Len(lst) < MAX_ITEMS_PER_SECTION

\* a categorizer that forgets the tier when it rates an item
SignificanceByScoreOnly(item, best_score) ==
    LET total_score == Get(item, "relevance_score", 0) + best_score
    IN  IF total_score >= 10 THEN "high"
        ELSE IF total_score >= 5 THEN "medium"
        ELSE "low"

\* the significance of an accepted item
Significance(item, best_score) ==
    LET total_score == Get(item, "relevance_score", 0) + best_score
    IN  IF total_score >= 10 \/ Get(item, "tier", "None") = 1 THEN "high"
        ELSE IF total_score >= 5 THEN "medium"
        ELSE "low"

\* the dict appended to the section's list
Entry(item, significance) ==
    [ title |-> item.title, url |-> item.url, source |-> item.source,
      summary |-> Get(item, "summary", ""), significance |-> significance ]

(***************************************************************************)
(* Synthesizer: generate_pulse, generate_outlook                           *)
(***************************************************************************)

RECURSIVE SumLens(_, _)
\* sum(len(v) for v in sections.values())
SumLens(sections, i) ==
    IF i > Len(SectionOrder) THEN 0
    ELSE Len(sections[SectionOrder[i]]) + SumLens(sections, i + 1)

TotalItems(sections) == SumLens(sections, 1)

RECURSIVE HighTitlesIn(_)
\* the titles of one section's items whose significance is "high", in list order
HighTitlesIn(lst) ==
    IF Len(lst) = 0 THEN << >>
    ELSE (IF Get(Head(lst), "significance", "None") = "high"
          THEN << Head(lst).title >> ELSE << >>)
         \o HighTitlesIn(Tail(lst))

RECURSIVE HighFrom(_, _)
HighFrom(sections, i) ==
    IF i > Len(SectionOrder) THEN << >>
    ELSE HighTitlesIn(sections[SectionOrder[i]]) \o HighFrom(sections, i + 1)

\* high_items: section by section in dict order, each section's list in order
HighItems(sections) == HighFrom(sections, 1)

RECURSIVE ActiveFrom(_, _)
ActiveFrom(sections, i) ==
    IF i > Len(SectionOrder) THEN << >>
    ELSE (IF Len(sections[SectionOrder[i]]) > 0 THEN << SectionOrder[i] >> ELSE << >>)
         \o ActiveFrom(sections, i + 1)

\* active_sections = [sid for sid, items in sections.items() if items]
ActiveSections(sections) == ActiveFrom(sections, 1)

section_labels ==
    [ multilateral_finance     |-> "multilateral development finance",
      major_economies          |-> "major economy infrastructure policy",
      canada_watch             |-> "Canadian infrastructure",
      project_finance_delivery |-> "project finance and delivery",
      climate_sustainability   |-> "climate resilience and sustainability",
      tech_innovation          |-> "technology and innovation" ]

\* the fixed message of a day without items (the source's dash is written --)
QuietDayMessage ==
    "A quiet day across global infrastructure -- no significant developments met our relevance threshold. Check back tomorrow."

\* the sentence generate_pulse adds when high_items is not empty
HighlightsPart(high_items) ==
    LET top == Take(high_items, 3)
    IN  IF Len(top) = 1
        THEN "Top story: " \o top[1] \o "."
        ELSE "Key developments include: " \o Join("; ", Take(top, 2)) \o "."

\* coverage = [section_labels.get(s, s) for s in active_sections[:4]]
Coverage(active_sections) ==
    LET first == Take(active_sections, 4)
    IN  [ i \in 1..Len(first) |-> Get(section_labels, first[i], first[i]) ]

\* the sentence generate_pulse adds when coverage is not empty
CoveragePart(coverage) ==
    IF Len(coverage) > 1
    THEN "Coverage spans " \o Join(", ", SubSeq(coverage, 1, Len(coverage) - 1))
         \o ", and " \o coverage[Len(coverage)] \o "."
    ELSE "Coverage focuses on " \o coverage[1] \o "."

generate_pulse(sections) ==
    LET total_items     == TotalItems(sections)
        high_items      == HighItems(sections)
        active_sections == ActiveSections(sections)
        coverage        == Coverage(active_sections)
    IN  IF total_items = 0 THEN QuietDayMessage
        ELSE Join(" ",
               << "Today's digest tracks " \o NumStr(total_items) \o " developments across "
                  \o NumStr(Len(active_sections)) \o " domains." >>
               \o (IF Len(high_items) > 0 THEN << HighlightsPart(high_items) >> ELSE << >>)
               \o (IF Len(coverage) > 0 THEN << CoveragePart(coverage) >> ELSE << >>))

BroadOutlook ==
    "Broad coverage across all six domains today suggests an active policy week ahead. Monitor multilateral announcements and national budget developments for signals on infrastructure spending trajectories. Subscribe via RSS or bookmark this page for tomorrow's edition."

ModerateOutlook ==
    "Moderate activity across infrastructure policy channels. Watch for follow-up developments on today's high-significance items, particularly any cross-border procurement or financing announcements. Tomorrow's digest will track continuations."

LightOutlook ==
    "A lighter day in infrastructure intelligence. Policy cycles often see surges around fiscal year milestones, parliamentary sessions, and multilateral convenings. Check back tomorrow for updated coverage."

\* a synthesizer whose broad-coverage template needs all six sections
OutlookForAllSix(active) ==
    IF active > 5 THEN BroadOutlook
    ELSE IF active >= 3 THEN ModerateOutlook
    ELSE LightOutlook

\* which template the count of active sections selects
OutlookFor(active) ==
    IF active >= 5 THEN BroadOutlook
    ELSE IF active >= 3 THEN ModerateOutlook
    ELSE LightOutlook

generate_outlook(sections) == OutlookFor(Len(ActiveSections(sections)))

(***************************************************************************)
(* Inputs: what the fetch collaborator hands to the core                   *)
(***************************************************************************)

\* longest feed made of arbitrary pool items, in any order, repeats allowed
MaxLen == 2

\* longest feed of the capacity runs
CapLen == 12

\* config["keywords"] as sources.yaml gives it (mixed case on purpose)
Config ==
    [ keywords |-> [ primary   |-> << "Infrastructure", "World Bank" >>,
                     secondary |-> << "loan", "Transit", "bond" >> ] ]

\* a normalized item as fetch_rss / fetch_scrape build it
Item(title, url, summary, source, tier) ==
    [ title |-> title, url |-> url, summary |-> summary, source |-> source, tier |-> tier ]

WorldBankLoan ==
    Item("World Bank approves $500M highway loan", "https://wb.example/loan",
         "", "World Bank News", 1)

OntarioTransit ==
    Item("Ontario transit expansion advances", "https://io.example/transit",
         "", "Infrastructure Ontario", 2)

\* items whose order and repetition in a feed matter: the same story in another
\* case and with a trailing blank, a tier-2 item without any keyword, two stories
\* under one URL, and two stories that tie between a section matched by its
\* source hint and a section matched by keywords only
Pool ==
    << WorldBankLoan,
       Item("WORLD BANK approves $500M highway loan", "https://wb.example/loan",
            "", "World Bank News", 1),
       Item("World Bank approves $500M highway loan ", "https://wb.example/loan",
            "", "World Bank News", 1),
       Item("Quarterly earnings call is scheduled", "https://dw.example/earnings",
            "", "Daily Wire", 2),
       OntarioTransit,
       Item("Climate resilience bond for flood adaptation", "https://io.example/transit",
            "", "Climate Bonds Initiative", 2),
       Item("Infrastructure Ontario and Metrolinx brief Alberta on Canadian transit",
            "https://oecd.example/plan", "", "OECD Observer", 3),
       Item("Infrastructure Ontario and Metrolinx brief Alberta on Canadian transit",
            "https://iea.example/plan", "", "IEA Bulletin", 3) >>

\* one full day's feed: every section gets an item, four items are of high
\* significance, one scores 1 at best and one matches no section at all
FullDay ==
    << WorldBankLoan,
       OntarioTransit,
       Item("Toll road concession reaches financial close", "https://ij.example/toll",
            "Infrastructure fund backs the deal", "IJGlobal", 2),
       Item("Smart city digital twin pilots for transit", "https://md.example/twin",
            "", "Metro Daily", 1),
       Item("Green infrastructure and flood defences", "https://lh.example/flood",
            "", "Local Herald", 3),
       Item("European Commission backs TEN-T rail infrastructure", "https://ec.example/tent",
            "", "European Commission", 1),
       Item("Belt and Road rail infrastructure expands", "https://nr.example/bri",
            "", "Nikkei Review", 3),
       Item("Infrastructure spending rises again", "https://dw.example/spending",
            "", "Daily Wire", 3) >>

\* every feed of at most n pool items
ShortFeeds(n) ==
    UNION { [ 1..k -> { Pool[i] : i \in 1..Len(Pool) } ] : k \in 0..n }

RECURSIVE SubLists(_)
\* every sub-list of a feed, order kept
SubLists(feed) ==
    IF Len(feed) = 0 THEN { << >> }
    ELSE LET rest == SubLists(Tail(feed))
         IN  rest \cup { << Head(feed) >> \o r : r \in rest }

Feeds == ShortFeeds(MaxLen) \cup SubLists(FullDay)

\* the i-th item of a capacity run: a canada_watch story under its own URL, of
\* tier 1 at every third position (so that the sort reorders the feed); at
\* position `other` a climate story instead, at position `dup` the URL of item 1
CapItem(i, other, dup) ==
    Item(IF i = other THEN "Climate resilience bond for flood adaptation"
                      ELSE "Ontario transit expansion advances",
         "https://io.example/transit/" \o NumStr(IF i = dup THEN 1 ELSE i),
         "",
         IF i = other THEN "Climate Bonds Initiative" ELSE "Infrastructure Ontario",
         IF i % 3 = 0 THEN 1 ELSE 2)

\* feeds of CapLen - 1 or CapLen items: more candidates than a section holds
CapFeeds ==
    { [ i \in 1..n |-> CapItem(i, other, dup) ] :
        << n, other, dup >> \in
            { t \in ((CapLen - 1)..CapLen) \X (0..CapLen) \X (0..CapLen) :
                t[2] <= t[1] /\ t[3] <= t[1] } }

\* the i-th item of a spill run: a canada_watch story (source hint and one
\* keyword, 6) that also scores 2 for climate_sustainability, under its own URL,
\* of tier 1 at every third position; at position `other` a story that scores 1
\* at best, at position `dup` a follow-up story under the URL of item 1
SpillItem(i, other, dup) ==
    Item(IF i = other THEN "Belt and Road rail infrastructure expands"
         ELSE IF i = dup THEN "Ontario transit flood resilience plan is updated"
         ELSE "Ontario transit flood resilience plan",
         "https://io.example/plan/" \o NumStr(IF i = dup THEN 1 ELSE i),
         "",
         IF i = other THEN "Nikkei Review" ELSE "Infrastructure Ontario",
         IF i = other THEN 3 ELSE IF i % 3 = 0 THEN 1 ELSE 2)

\* feeds of CapLen or CapLen + 1 items that overfill canada_watch while
\* climate_sustainability stays empty
SpillFeeds ==
    { [ i \in 1..n |-> SpillItem(i, other, dup) ] :
        << n, other, dup >> \in
            { t \in (CapLen..(CapLen + 1)) \X (0..(CapLen + 1)) \X (0..(CapLen + 1)) :
                t[2] <= t[1] /\ t[3] <= t[1] } }

(***************************************************************************)
(* The run of main(): score, deduplicate, categorize, synthesize           *)
(***************************************************************************)

VARIABLES
    all_items,      \* main's all_items, the list handed to keyword_relevance
    scored,         \* the list keyword_relevance returned
    unique,         \* the list deduplicate returned, handed to categorize_items
    sections,       \* categorize_items: section id -> list of accepted entries
    used_urls,      \* categorize_items: the URLs accepted so far
    idx,            \* categorize_items: position of the for loop in items
    best_section,   \* categorize_items: best_section of the last iteration
    best_score,     \* categorize_items: best_score of the last iteration
    pulse,          \* what generate_pulse returned
    outlook,        \* what generate_outlook returned
    pc              \* where the run is

vars == << all_items, scored, unique, sections, used_urls, idx,
           best_section, best_score, pulse, outlook, pc >>

\* the state in which main() calls keyword_relevance on the feed
StartWith(feed) ==
    /\ all_items = feed
    /\ scored = << >>
    /\ unique = << >>
    /\ sections = << >>
    /\ used_urls = {}
    /\ idx = 0
    /\ best_section = "None"
    /\ best_score = 0
    /\ pulse = ""
    /\ outlook = ""
    /\ pc = "score"

Init == \E feed \in Feeds : StartWith(feed)

\* scored = keyword_relevance(all_items, config)
Score ==
    /\ pc = "score"
    /\ scored' = keyword_relevance(all_items, Config)
    /\ all_items' = ItemsAfterScoring(all_items, Config)
    /\ pc' = "dedup"
    /\ UNCHANGED << unique, sections, used_urls, idx, best_section, best_score, pulse, outlook >>

\* unique = deduplicate(scored)
Dedup ==
    /\ pc = "dedup"
    /\ unique' = deduplicate(scored)
    /\ pc' = "categorize"
    /\ UNCHANGED << all_items, scored, sections, used_urls, idx, best_section, best_score,
                    pulse, outlook >>

\* categorize_items(unique) up to its for loop: the parameter `items` is the
\* caller's list object, and items.sort() reorders it in place
CategorizeStart ==
    /\ pc = "categorize"
    /\ sections' = [ s \in SectionIds |-> << >> ]
    /\ used_urls' = {}
    /\ unique' = SortByRelevance(unique)
    /\ idx' = 1
    /\ pc' = "loop"
    /\ UNCHANGED << all_items, scored, best_section, best_score, pulse, outlook >>

\* does the iteration append its item, whose best match is `best`?
Accepts(item, best, secs, used) ==
    /\ Qualifies(best)
    /\ UrlIsNew(item, used)
    /\ HasRoom(secs[best.section])

\* a categorizer that retries an item whose best section is full: it goes to
\* the first other section that scores at least 2 and has room
SectionsAfterSpill(item, best, secs, used) ==
    IF Accepts(item, best, secs, used)
    THEN [ secs EXCEPT ![best.section] =
             Append(@, Entry(item, Significance(item, best.score))) ]
    ELSE IF Qualifies(best) /\ UrlIsNew(item, used)
         THEN LET text         == ItemText(item)
                  source_lower == Lower(Get(item, "source", ""))
                  fits == { i \in 1..Len(SectionOrder) :
                              /\ HasRoom(secs[SectionOrder[i]])
                              /\ SectionScore(SectionOrder[i], text, source_lower) >= 2 }
              IN  IF fits = {} THEN secs
                  ELSE LET first == CHOOSE i \in fits : \A j \in fits : i <= j
                       IN  [ secs EXCEPT ![SectionOrder[first]] =
                               Append(@, Entry(item, Significance(item, best.score))) ]
         ELSE secs

\* the section lists after the iteration on item
SectionsAfter(item, best, secs, used) ==
    IF Accepts(item, best, secs, used)
    THEN [ secs EXCEPT ![best.section] =
             Append(@, Entry(item, Significance(item, best.score))) ]
    ELSE secs

\* used_urls after the iteration on item
UsedAfter(item, best, secs, used) ==
    IF Accepts(item, best, secs, used) THEN used \cup { item.url } ELSE used

\* one iteration of the for loop of categorize_items
CategorizeItem ==
    /\ pc = "loop"
    /\ idx <= Len(unique)
    /\ \E best \in { BestMatch(unique[idx]) } :
          /\ best_section' = best.section
          /\ best_score' = best.score
          /\ sections' = SectionsAfter(unique[idx], best, sections, used_urls)
          /\ used_urls' = UsedAfter(unique[idx], best, sections, used_urls)
    /\ idx' = idx + 1
    /\ UNCHANGED << all_items, scored, unique, pulse, outlook, pc >>

\* the for loop is exhausted: return sections
CategorizeReturn ==
    /\ pc = "loop"
    /\ idx > Len(unique)
    /\ pc' = "pulse"
    /\ UNCHANGED << all_items, scored, unique, sections, used_urls, idx,
                    best_section, best_score, pulse, outlook >>

\* pulse = generate_pulse(sections)
Pulse ==
    /\ pc = "pulse"
    /\ pulse' = generate_pulse(sections)
    /\ pc' = "outlook"
    /\ UNCHANGED << all_items, scored, unique, sections, used_urls, idx,
                    best_section, best_score, outlook >>

\* outlook = generate_outlook(sections)
Outlook ==
    /\ pc = "outlook"
    /\ outlook' = generate_outlook(sections)
    /\ pc' = "done"
    /\ UNCHANGED << all_items, scored, unique, sections, used_urls, idx,
                    best_section, best_score, pulse >>

Next ==
    \/ Score
    \/ Dedup
    \/ CategorizeStart
    \/ CategorizeItem
    \/ CategorizeReturn
    \/ Pulse
    \/ Outlook

Spec == Init /\ [][Next]_vars

\* the runs on feeds that overfill a section
InitCap == \E feed \in CapFeeds : StartWith(feed)

SpecCap == InitCap /\ [][Next]_vars

\* the runs on feeds that overfill one section while another one has room
InitSpill == \E feed \in SpillFeeds : StartWith(feed)

SpecSpill == InitSpill /\ [][Next]_vars

(***************************************************************************)
(* Properties                                                              *)
(***************************************************************************)

\* categorize_items has built its section lists (in part or in full)
Categorizing == pc \in { "loop", "pulse", "outlook", "done" }

RECURSIVE EntriesFrom(_, _)
EntriesFrom(secs, i) ==
    IF i > Len(SectionOrder) THEN << >>
    ELSE secs[SectionOrder[i]] \o EntriesFrom(secs, i + 1)

\* all entries of a result, section after section
AllEntries(secs) == EntriesFrom(secs, 1)

\* the URLs of a list of items or entries, in order
UrlsOf(lst) == [ i \in 1..Len(lst) |-> lst[i].url ]

\* C1: after every prefix of the loop of categorize_items, and in the final
\* result, no URL occurs twice among the entries of all sections (neither in two
\* sections nor twice in one), and used_urls is exactly the set of the entries'
\* URLs, one entry for each.
C1_ExclusiveUrls ==
    Categorizing =>
        LET entries == AllEntries(sections)
        IN  /\ \A i, j \in 1..Len(entries) :
                  i # j => entries[i].url # entries[j].url
            /\ used_urls = { entries[i].url : i \in 1..Len(entries) }
            /\ Cardinality(used_urls) = Len(entries)

\* two stories under one URL, both fit for a section (different ones), were
\* offered, and only one of them is in the result
C1_Witness ==
    /\ pc = "done"
    /\ Len(unique) = 2
    /\ unique[1].url = unique[2].url
    /\ unique[1].source = "Infrastructure Ontario"
    /\ unique[2].source = "Climate Bonds Initiative"
    /\ Len(sections["canada_watch"]) = 1
    /\ Len(sections["climate_sustainability"]) = 0

\* the processing order the claims describe, computed by rank: an item comes
\* before another when its relevance_score is higher, or equal and it was earlier
RankOf(items, i) ==
    1 + Cardinality({ j \in 1..Len(items) :
                        \/ items[j].relevance_score > items[i].relevance_score
                        \/ /\ items[j].relevance_score = items[i].relevance_score
                           /\ j < i })

ProcessingOrder(items) ==
    [ r \in 1..Len(items) |-> items[CHOOSE i \in 1..Len(items) : RankOf(items, i) = r] ]

RECURSIVE QualifiersUpTo(_, _)
\* for each section, the positions up to p of the items that qualify for it:
\* it is their best match, with a score of at least 2, and when their turn comes
\* their URL is not that of an item retained before (the first 10 of a section)
QualifiersUpTo(items, p) ==
    IF p = 0 THEN [ s \in SectionIds |-> << >> ]
    ELSE LET prev     == QualifiersUpTo(items, p - 1)
             retained == UNION { { items[Take(prev[s], 10)[k]].url :
                                     k \in 1..Len(Take(prev[s], 10)) } : s \in SectionIds }
             best     == BestMatch(items[p])
         IN  IF best.score >= 2 /\ items[p].url \notin retained
             THEN [ prev EXCEPT ![best.section] = Append(@, p) ]
             ELSE prev

\* C2: no section's list is ever longer than 10; and in the result each section
\* holds exactly the first 10 (or all, when fewer) of the items that qualified
\* for it, in the processing order (relevance_score descending, ties in the
\* order of the input).
C2_Capacity ==
    /\ Categorizing => \A s \in SectionIds : Len(sections[s]) <= 10
    /\ pc = "pulse" =>
          LET order == ProcessingOrder(deduplicate(scored))
              quals == QualifiersUpTo(order, Len(order))
          IN  \A s \in SectionIds :
                  UrlsOf(sections[s])
                    = [ k \in 1..Len(Take(quals[s], 10)) |-> order[quals[s][k]].url ]

\* more than 10 items qualified for canada_watch and 10 were retained
C2_Witness ==
    /\ pc = "pulse"
    /\ Len(unique) > 10
    /\ \A i \in 1..Len(unique) : unique[i].source = "Infrastructure Ontario"
    /\ \A i, j \in 1..Len(unique) : i # j => unique[i].url # unique[j].url
    /\ Len(sections["canada_watch"]) = 10

\* how many of the keywords occur in the text
Occurring(kws, text) ==
    Cardinality({ i \in 1..Len(kws) : Contains(Lower(kws[i]), text) })

\* the score of the claim: 2 for each primary keyword occurring, 1 for each
\* secondary keyword occurring, 3 for tier 1, 1 for tier 2
ClaimedRelevance(item) ==
    2 * Occurring(Config.keywords.primary, ItemText(item))
    + Occurring(Config.keywords.secondary, ItemText(item))
    + (CASE item.tier = 1 -> 3 [] item.tier = 2 -> 1 [] OTHER -> 0)

ScoresAtLeast2(item) == ClaimedRelevance(item) >= 2

\* C3: keyword_relevance returns, in input order, exactly the items whose score
\* is at least 2, each with relevance_score equal to that score (title and
\* summary are matched as the text the code builds from them).
C3_Relevance ==
    pc = "dedup" =>
        LET kept == SelectSeq(all_items, ScoresAtLeast2)
        IN  /\ Len(scored) = Len(kept)
            /\ \A i \in 1..Len(scored) :
                  /\ scored[i].relevance_score = ClaimedRelevance(kept[i])
                  /\ \A f \in { "title", "url", "summary", "source", "tier" } :
                        scored[i][f] = kept[i][f]

\* a tier-2 item without any keyword (score 1) was dropped and a tier-2 item with
\* one secondary keyword (score 2) was kept
C3_Witness ==
    /\ pc = "dedup"
    /\ Len(all_items) = 2
    /\ all_items[1].title = "Quarterly earnings call is scheduled"
    /\ all_items[2].title = "Ontario transit expansion advances"
    /\ Len(scored) = 1
    /\ scored[1].title = "Ontario transit expansion advances"
    /\ scored[1].relevance_score = 2

\* the identity of the claim: the trimmed, lowercased title and URL
ClaimedIdentity(item) == << Strip(Lower(item.title)), Strip(Lower(item.url)) >>

\* the items whose identity did not occur earlier in the list
FirstOccurrences(items) ==
    LET keep == { i \in 1..Len(items) :
                    \A j \in 1..(i - 1) : ClaimedIdentity(items[j]) # ClaimedIdentity(items[i]) }
        F[i \in 0..Len(items)] ==
            IF i = 0 THEN << >>
            ELSE IF i \in keep THEN Append(F[i - 1], items[i]) ELSE F[i - 1]
    IN  F[Len(items)]

ClaimedSectionScore(s, text, source_lower) ==
    (IF \E i \in 1..Len(SECTION_RULES[s].source_hints) :
            Contains(SECTION_RULES[s].source_hints[i], source_lower)
     THEN 5 ELSE 0)
    + Cardinality({ k \in 1..Len(SECTION_RULES[s].keywords) :
                      Contains(SECTION_RULES[s].keywords[k], text) })

\* the six scores of an item, in the declared order of the sections
ClaimedScores(item) ==
    LET text         == ItemText(item)
        source_lower == Lower(item.source)
    IN  << ClaimedSectionScore("multilateral_finance", text, source_lower),
           ClaimedSectionScore("major_economies", text, source_lower),
           ClaimedSectionScore("canada_watch", text, source_lower),
           ClaimedSectionScore("project_finance_delivery", text, source_lower),
           ClaimedSectionScore("climate_sustainability", text, source_lower),
           ClaimedSectionScore("tech_innovation", text, source_lower) >>

DeclaredOrder ==
    << "multilateral_finance", "major_economies", "canada_watch",
       "project_finance_delivery", "climate_sustainability", "tech_innovation" >>

\* C5: the section chosen for an item is the earliest section, in the declared
\* order, among those attaining the item's maximum match score (5 for a source
\* hint, once, plus 1 for each keyword occurring); a section is chosen whenever
\* some section scores at all.
C5_EarliestBestSection ==
    (pc = "loop" /\ idx > 1) =>
        \E score \in { ClaimedScores(unique[idx - 1]) } :
            LET top   == CHOOSE m \in { score[i] : i \in 1..6 } :
                             \A i \in 1..6 : score[i] <= m
                first == CHOOSE i \in 1..6 :
                             /\ score[i] = top
                             /\ \A j \in 1..(i - 1) : score[j] < top
            IN  /\ top > 0 => best_section = DeclaredOrder[first] /\ best_score = top
                /\ top = 0 => best_section = "None"

\* a story whose source hints at climate_sustainability (5) and whose text holds
\* five canada_watch keywords (5) went to canada_watch, the earlier section
C5_Witness ==
    /\ pc = "loop"
    /\ idx > 1
    /\ unique[idx - 1].source = "IEA Bulletin"
    /\ best_section = "canada_watch"
    /\ best_score = 5
    /\ Len(sections["canada_watch"]) > 0

\* the rating of the claim, from the sum relevance_score + best section score
ClaimedSignificance(sum, tier) ==
    CASE sum >= 10 \/ tier = 1 -> "high"
      [] ~ (sum >= 10 \/ tier = 1) /\ sum >= 5 -> "medium"
      [] OTHER -> "low"

\* C6: every item categorize_items accepts is entered with significance high if
\* relevance_score + best section score >= 10 or its tier is 1, else medium if
\* the sum is >= 5, else low; so an accepted tier-1 item is always high.
C6_Significance ==
    [][ (pc = "loop" /\ sections' # sections) =>
            LET item  == unique[idx]
                entry == sections'[best_section'][Len(sections'[best_section'])]
            IN  /\ entry.url = item.url
                /\ entry.title = item.title
                /\ entry.significance
                     = ClaimedSignificance(item.relevance_score + best_score', item.tier)
                /\ item.tier = 1 => entry.significance = "high" ]_vars

\* a result with a low, a medium and a high entry, the high one being a tier-1
\* story whose scores add up to 6 only
C6_Witness ==
    /\ pc = "done"
    /\ \E e \in { sections["climate_sustainability"][i] :
                    i \in 1..Len(sections["climate_sustainability"]) } :
           e.significance = "low"
    /\ \E e \in { sections["canada_watch"][i] : i \in 1..Len(sections["canada_watch"]) } :
           e.significance = "medium"
    /\ \E i \in 1..Len(unique) :
           /\ unique[i].source = "Metro Daily"
           /\ unique[i].tier = 1
           /\ unique[i].relevance_score = 4
    /\ Len(sections["tech_innovation"]) = 1
    /\ sections["tech_innovation"][1].significance = "high"

\* the titles of a result's high-significance entries, section after section
HighTitles(secs) ==
    LET high == SelectSeq(AllEntries(secs), LAMBDA e : e.significance = "high")
    IN  [ i \in 1..Len(high) |-> high[i].title ]

Min(a, b) == IF a < b THEN a ELSE b

\* C7: when the result has k >= 1 high-significance entries, the pulse names
\* exactly the first min(k, 3) of their titles: one as "Top story" when k = 1,
\* min(k, 3) of them as "Key developments" when k >= 2.
C7_NamesUpToThreeTitles ==
    (pc = "done" /\ Len(HighTitles(sections)) >= 1) =>
        LET high == HighTitles(sections)
            k    == Len(high)
        IN  /\ \A i \in 1..k : Contains(high[i], pulse) <=> i <= Min(k, 3)
            /\ k = 1 => Contains("Top story: " \o high[1], pulse)
            /\ k >= 2 => Contains("Key developments", pulse)

\* a list as the claim punctuates it: "A", "A and B", "A, B, and C"
NaturalList(labels) ==
    IF Len(labels) = 1 THEN labels[1]
    ELSE IF Len(labels) = 2 THEN labels[1] \o " and " \o labels[2]
    ELSE Join(", ", SubSeq(labels, 1, Len(labels) - 1)) \o ", and " \o labels[Len(labels)]

DisplayLabel ==
    [ multilateral_finance     |-> "multilateral development finance",
      major_economies          |-> "major economy infrastructure policy",
      canada_watch             |-> "Canadian infrastructure",
      project_finance_delivery |-> "project finance and delivery",
      climate_sustainability   |-> "climate resilience and sustainability",
      tech_innovation          |-> "technology and innovation" ]

\* the labels of the non-empty sections of a result, in the declared order
ActiveLabels(secs) ==
    LET active == SelectSeq(DeclaredOrder, LAMBDA s : Len(secs[s]) > 0)
    IN  [ i \in 1..Len(active) |-> DisplayLabel[active[i]] ]

\* C8: when the result has n >= 1 active sections, the pulse names the labels
\* of the first min(n, 4) of them as a natural-language list: "A" for one,
\* "A and B" for two, "A, B, and C" for three or four; a fifth is not named.
C8_NaturalListOfLabels ==
    (pc = "done" /\ Len(ActiveLabels(sections)) >= 1) =>
        LET labels == ActiveLabels(sections)
            n      == Len(labels)
        IN  /\ Contains(" " \o NaturalList(Take(labels, 4)) \o ".", pulse)
            /\ \A i \in 1..n : i > 4 => ~ Contains(labels[i], pulse)

\* how many sections of a result hold an entry
NonEmptyCount(secs) == Cardinality({ s \in DOMAIN secs : Len(secs[s]) > 0 })

\* C9: when the run ends without any accepted item (as it does for an empty
\* feed, for a feed without an item at the threshold, and when no item scores 2
\* for a section) the result maps each of the six sections to an empty list, the
\* pulse is the fixed quiet-day message and the outlook the light-day template;
\* and the outlook is always the one its count of non-empty sections selects
\* (5 or 6 broad, 3 or 4 moderate, 0 to 2 light).
C9_QuietDayAndOutlook ==
    pc = "done" =>
        /\ DOMAIN sections = { "multilateral_finance", "major_economies", "canada_watch",
                               "project_finance_delivery", "climate_sustainability",
                               "tech_innovation" }
        /\ (Len(all_items) = 0 \/ Len(scored) = 0) => NonEmptyCount(sections) = 0
        /\ NonEmptyCount(sections) = 0 =>
              /\ \A s \in DOMAIN sections : sections[s] = << >>
              /\ pulse = QuietDayMessage
              /\ outlook = LightOutlook
        /\ outlook = (CASE NonEmptyCount(sections) \in 5..6 -> BroadOutlook
                        [] NonEmptyCount(sections) \in 3..4 -> ModerateOutlook
                        [] NonEmptyCount(sections) \in 0..2 -> LightOutlook)

\* an item passed the relevance threshold, no section took it, and the run
\* ended with the quiet-day message and the light-day template
C9_Witness ==
    /\ pc = "done"
    /\ Len(unique) = 1
    /\ NonEmptyCount(sections) = 0
    /\ pulse = QuietDayMessage
    /\ outlook = LightOutlook

\* C10: no call changes the list it was given, but for the relevance_score that
\* keyword_relevance adds: the list has the same elements in the same order
\* after the call, and every field an element had keeps its value.
C10_CallerListsUntouched ==
    [][ /\ pc = "score" =>
              /\ Len(all_items') = Len(all_items)
              /\ \A i \in 1..Len(all_items) :
                    /\ DOMAIN all_items'[i] \subseteq DOMAIN all_items[i] \cup { "relevance_score" }
                    /\ \A f \in DOMAIN all_items[i] : all_items'[i][f] = all_items[i][f]
        /\ pc = "dedup" => scored' = scored
        /\ pc \in { "categorize", "loop" } => unique' = unique
        /\ pc \in { "pulse", "outlook" } => sections' = sections ]_vars

\* is lst the beginning of longer?
IsPrefix(lst, longer) ==
    Len(lst) <= Len(longer) /\ SubSeq(longer, 1, Len(lst)) = lst

\* C11: an iteration of categorize_items changes at most the list of its item's
\* single best-matching section, and by nothing but one entry for the item at
\* its end; when the item's best score is below 2, or that section holds 10
\* entries, or the item's URL is among the accepted ones, no list changes at
\* all, whatever the other sections score and hold; the loop moves on to the
\* next item and never back; and from then on every list only grows at its end.
C11_BestSectionOrNowhere ==
    [][ /\ Categorizing => \A s \in SectionIds : IsPrefix(sections[s], sections'[s])
        /\ (pc = "loop" /\ idx <= Len(unique)) =>
              \E score \in { ClaimedScores(unique[idx]) } :
                  LET item  == unique[idx]
                      top   == CHOOSE m \in { score[i] : i \in 1..6 } :
                                   \A i \in 1..6 : score[i] <= m
                      first == CHOOSE i \in 1..6 :
                                   /\ score[i] = top
                                   /\ \A j \in 1..(i - 1) : score[j] < top
                      home  == DeclaredOrder[first]
                      taken == { AllEntries(sections)[k].url :
                                   k \in 1..Len(AllEntries(sections)) }
                  IN  /\ idx' = idx + 1
                      /\ unique' = unique
                      /\ \A s \in SectionIds \ { home } : sections'[s] = sections[s]
                      /\ \/ sections'[home] = sections[home]
                         \/ /\ Len(sections'[home]) = Len(sections[home]) + 1
                            /\ sections'[home][Len(sections'[home])].url = item.url
                            /\ sections'[home][Len(sections'[home])].title = item.title
                      /\ (top < 2 \/ Len(sections[home]) >= 10 \/ item.url \in taken)
                            => sections' = sections ]_vars

\* the run is over, canada_watch is full and climate_sustainability empty; the
\* last item processed has canada_watch as its best section (6) and scores 2 for
\* climate_sustainability, its URL is not among the accepted ones, and it is in
\* no section; one item that scores 1 at best and one whose URL was accepted
\* before are in no section either
C11_Witness ==
    /\ pc = "pulse"
    /\ Len(sections["canada_watch"]) = 10
    /\ Len(sections["climate_sustainability"]) = 0
    /\ best_section = "canada_watch"
    /\ best_score = 6
    /\ unique[Len(unique)].url \notin used_urls
    /\ \A k \in 1..10 : sections["canada_watch"][k].title # unique[Len(unique)].title
                        \/ sections["canada_watch"][k].url # unique[Len(unique)].url
    /\ \E i \in 1..Len(unique) : unique[i].source = "Nikkei Review"
    /\ \E i, j \in 1..Len(unique) :
           /\ i < j
           /\ unique[i].url = unique[j].url
           /\ unique[i].source = "Infrastructure Ontario"
           /\ unique[j].source = "Infrastructure Ontario"
           /\ unique[i].url \in used_urls
    /\ TotalItems(sections) = 10
    /\ ClaimedScores(unique[Len(unique)])[5] >= 2

\* where the item of an entry (or an item itself) stands in a list of items
PositionIn(items, e) ==
    CHOOSE i \in 1..Len(items) :
        /\ items[i].title = e.title /\ items[i].url = e.url
        /\ \A j \in 1..(i - 1) : items[j].title # e.title \/ items[j].url # e.url

\* a list of items or entries goes by relevance_score downwards, and by the
\* position in the input among equal scores
InClaimedOrder(lst, input) ==
    \A a, b \in 1..Len(lst) :
        a < b =>
            LET i == PositionIn(input, lst[a])
                j == PositionIn(input, lst[b])
            IN  \/ input[i].relevance_score > input[j].relevance_score
                \/ /\ input[i].relevance_score = input[j].relevance_score
                   /\ i < j

\* C12: the loop of categorize_items runs over its input in the order of
\* relevance_score descending, items of equal score in the order they had in the
\* input; so after every iteration and in the result each section's list is in
\* non-increasing relevance_score order of the items it was built from, and two
\* entries of one section whose items have equal scores stand as in the input.
C12_DescendingStableOrder ==
    /\ (pc = "loop" /\ idx = 1) => unique = ProcessingOrder(deduplicate(scored))
    /\ Categorizing =>
          /\ InClaimedOrder(unique, scored)
          /\ \A s \in SectionIds : InClaimedOrder(sections[s], scored)

\* the run is over on a feed of canada_watch stories under distinct URLs, its
\* first two of equal score and its third of a higher one: the third is the
\* first entry of canada_watch, and the first two follow further down, next to
\* each other and in their input order
C12_Witness ==
    /\ pc = "pulse"
    /\ Len(scored) > 10
    /\ \A i \in 1..Len(scored) : scored[i].source = "Infrastructure Ontario"
    /\ \A i, j \in 1..Len(scored) : i # j => scored[i].url # scored[j].url
    /\ scored[1].relevance_score = scored[2].relevance_score
    /\ scored[1].relevance_score < scored[3].relevance_score
    /\ Len(sections["canada_watch"]) = 10
    /\ sections["canada_watch"][1].url = scored[3].url
    /\ \E k \in 2..9 :
           /\ sections["canada_watch"][k].url = scored[1].url
           /\ sections["canada_watch"][k + 1].url = scored[2].url

=============================================================================
